---- MODULE Spec2Model ----
(***************************************************************************)
(* A model of tdlib.h: the macro-based growable vector specialised to      *)
(* TD_String, the non-owning TD_String_View functions and                  *)
(* td_read_file_to_string.                                                 *)
(*                                                                         *)
(* Integer widths are scaled down: size_t is SizeBits wide and i32 is      *)
(* I32Bits wide, so that wrap-around and truncation are reachable by the   *)
(* model checker.  A heap block is an object with an identity; per the C   *)
(* standard a successful realloc ends the lifetime of the old object and   *)
(* returns a new one.                                                      *)
(***************************************************************************)
EXTENDS Integers, Sequences, FiniteSets, TLC

VARIABLES str, heap, aborted, last, view, ghost, sl, ch

vars == <<str, heap, aborted, last, view, ghost, sl, ch>>

(***************************************************************************)
(* Bounds of the model.                                                    *)
(***************************************************************************)
SizeBits == 6
I32Bits == 3
HeapMax == 4
MaxBulk == 3
MaxFileLen == 9
MaxLen == 4
MaxIdx == 6

(***************************************************************************)
(* Program constants and basic types.                                      *)
(***************************************************************************)
\* #ifndef TD_VECINITSZ: the initial capacity is a build-time setting (1024
\* unless the embedding program defines it); the model is the build with
\* -DTD_VECINITSZ=1, so that several doublings fit under HeapMax.
TD_VECINITSZ == 1

NULL == 0

Addr == {1, 2, 3}

SIZE_MOD == 2 ^ SizeBits

I32_MOD == 2 ^ I32Bits

Byte == {"a", "b", ","}

\* the value of a byte that was never written
Junk == "?"

Min(a, b) == IF a < b THEN a ELSE b

\* size_t arithmetic
SzAdd(a, b) == (a + b) % SIZE_MOD

SzSub(a, b) == (a - b) % SIZE_MOD

SzMul(a, b) == (a * b) % SIZE_MOD

\* conversion of a long to i32 (file_size = ftell(fp))
ToI32(n) == ((n + I32_MOD \div 2) % I32_MOD) - I32_MOD \div 2

\* TD_String as created by the caller: all zero
EmptyString == [data |-> NULL, size |-> 0, alloc |-> 0]

\* a pointer into a heap block, and a TD_String_View
Ptr(base, off) == [base |-> base, off |-> off]

View(base, off, size) == [data |-> Ptr(base, off), size |-> size]

NullView == View(NULL, 0, 0)

(***************************************************************************)
(* The allocator hooks.                                                    *)
(***************************************************************************)
Pad(s, n) == [i \in 1..n |-> IF i <= Len(s) THEN s[i] ELSE Junk]

Block(h, p) == IF p = NULL THEN <<>> ELSE h[p]

Without(h, p) == [q \in (DOMAIN h) \ {p} |-> h[q]]

With(h, p, b) == [q \in (DOMAIN h) \cup {p} |-> IF q = p THEN b ELSE h[q]]

\* realloc(ptr, sz): on success the old block is gone and a new block holds
\* its first sz bytes; on failure NULL is returned and the old block stays.
TD_REALLOC(h, ptr, sz, ok, fresh) ==
    IF ok /\ sz <= HeapMax
    THEN [ptr |-> fresh, heap |-> With(Without(h, ptr), fresh, Pad(Block(h, ptr), sz))]
    ELSE [ptr |-> NULL, heap |-> h]

\* free(p); free(NULL) does nothing
TD_FREE(h, p) == IF p = NULL THEN h ELSE Without(h, p)

(***************************************************************************)
(* td__vec_alloc, td_vec_append, td_vec_append_bulk as functions of the    *)
(* vector, the heap and the allocator's answer.  The result carries the    *)
(* vector, the heap, whether the growth branch ran and whether TD_PANIC    *)
(* was reached.                                                            *)
(***************************************************************************)
RECURSIVE Double(_, _)
\* while ((capacity) > (vector)->alloc) (vector)->alloc *= 2;
Double(alloc, capacity) ==
    IF capacity > alloc THEN Double(SzMul(alloc, 2), capacity) ELSE alloc

\* td__vec_alloc growing to the requested capacity in one jump
td__vec_alloc_fit(s, h, capacity, ok, fresh) ==
    IF capacity > s.alloc
    THEN LET r == TD_REALLOC(h, s.data, capacity, ok, fresh)
         IN  [str   |-> [s EXCEPT !.alloc = capacity, !.data = r.ptr],
              heap  |-> r.heap,
              grew  |-> TRUE,
              panic |-> r.ptr = NULL]
    ELSE [str |-> s, heap |-> h, grew |-> FALSE, panic |-> FALSE]

\* td__vec_alloc with >= for > in its capacity test
td__vec_alloc_ge(s, h, capacity, ok, fresh) ==
    IF capacity >= s.alloc
    THEN LET a0 == IF s.alloc = 0 THEN TD_VECINITSZ ELSE s.alloc
             a1 == Double(a0, capacity)
             r  == TD_REALLOC(h, s.data, SzMul(a1, 1), ok, fresh)
         IN  [str   |-> [s EXCEPT !.alloc = a1, !.data = r.ptr],
              heap  |-> r.heap,
              grew  |-> TRUE,
              panic |-> r.ptr = NULL]
    ELSE [str |-> s, heap |-> h, grew |-> FALSE, panic |-> FALSE]

td__vec_alloc(s, h, capacity, ok, fresh) ==
    IF capacity > s.alloc
    THEN LET a0 == IF s.alloc = 0 THEN TD_VECINITSZ ELSE s.alloc
             a1 == Double(a0, capacity)
             r  == TD_REALLOC(h, s.data, SzMul(a1, 1), ok, fresh)
         IN  [str   |-> [s EXCEPT !.alloc = a1, !.data = r.ptr],
              heap  |-> r.heap,
              grew  |-> TRUE,
              panic |-> r.ptr = NULL]
    ELSE [str |-> s, heap |-> h, grew |-> FALSE, panic |-> FALSE]

td_vec_append(s, h, item, ok, fresh) ==
    LET r == td__vec_alloc(s, h, SzAdd(s.size, 1), ok, fresh)
    IN  IF r.panic THEN r
        ELSE [r EXCEPT !.heap[r.str.data][s.size + 1] = item,
                       !.str.size = SzAdd(s.size, 1)]

\* memcpy(dst + off, items, count)
Memcpy(b, off, items, count) ==
    [i \in 1..Len(b) |-> IF i > off /\ i <= off + count THEN items[i - off] ELSE b[i]]

\* td_vec_append_bulk copying to data instead of data + size
td_vec_append_bulk_front(s, h, items, count, ok, fresh) ==
    LET r == td__vec_alloc(s, h, SzAdd(s.size, count), ok, fresh)
    IN  IF r.panic THEN r
        ELSE IF r.str.data = NULL
             THEN [r EXCEPT !.str.size = SzAdd(s.size, count)]
             ELSE [r EXCEPT !.heap[r.str.data] = Memcpy(@, 0, items, count),
                            !.str.size = SzAdd(s.size, count)]

td_vec_append_bulk(s, h, items, count, ok, fresh) ==
    LET r == td__vec_alloc(s, h, SzAdd(s.size, count), ok, fresh)
    IN  IF r.panic THEN r
        ELSE IF r.str.data = NULL
             THEN [r EXCEPT !.str.size = SzAdd(s.size, count)]
             ELSE [r EXCEPT !.heap[r.str.data] = Memcpy(@, s.size, items, count),
                            !.str.size = SzAdd(s.size, count)]

\* td_string_clear that leaves alloc as it was
td_string_clear_keepalloc(s, h) ==
    [str |-> [EmptyString EXCEPT !.alloc = s.alloc], heap |-> TD_FREE(h, s.data),
     grew |-> FALSE, panic |-> FALSE]

\* td_string_clear
td_string_clear(s, h) ==
    [str |-> EmptyString, heap |-> TD_FREE(h, s.data), grew |-> FALSE, panic |-> FALSE]

(***************************************************************************)
(* td_read_file_to_string.  io is what the file handle does: "ok",         *)
(* "seek_fail" (fseek fails), "tell_fail" (ftell returns -1) or "short"    *)
(* (fread returns nread, fewer bytes than asked for).                      *)
(***************************************************************************)
\* td_read_file_to_string allocating exactly the probed length
td_read_file_to_string_fit(s, h, file, io, nread, ok, fresh) ==
    LET same == [str |-> s, heap |-> h, grew |-> FALSE, panic |-> FALSE, ret |-> FALSE]
    IN
    IF io = "seek_fail" THEN same
    ELSE LET file_size == IF io = "tell_fail" THEN -1 ELSE ToI32(Len(file))
         IN
         IF file_size < 0 THEN same
         ELSE LET r    == td__vec_alloc_fit(s, h, file_size, ok, fresh)
                  read == IF io = "short" THEN Min(nread, file_size) ELSE file_size
                  h2   == IF r.str.data = NULL THEN r.heap
                          ELSE [r.heap EXCEPT ![r.str.data] = Memcpy(@, 0, file, read)]
              IN
              IF r.panic
              THEN [str |-> r.str, heap |-> r.heap, grew |-> r.grew,
                    panic |-> TRUE, ret |-> FALSE]
              ELSE IF read # file_size
              THEN [str |-> r.str, heap |-> h2, grew |-> r.grew,
                    panic |-> FALSE, ret |-> FALSE]
              ELSE [str |-> [r.str EXCEPT !.size = read], heap |-> h2, grew |-> r.grew,
                    panic |-> FALSE, ret |-> TRUE]

td_read_file_to_string(s, h, file, io, nread, ok, fresh) ==
    LET same == [str |-> s, heap |-> h, grew |-> FALSE, panic |-> FALSE, ret |-> FALSE]
    IN
    IF io = "seek_fail" THEN same
    ELSE LET file_size == IF io = "tell_fail" THEN -1 ELSE ToI32(Len(file))
         IN
         IF file_size < 0 THEN same
         ELSE LET r    == td__vec_alloc(s, h, file_size, ok, fresh)
                  read == IF io = "short" THEN Min(nread, file_size) ELSE file_size
                  h2   == IF r.str.data = NULL THEN r.heap
                          ELSE [r.heap EXCEPT ![r.str.data] = Memcpy(@, 0, file, read)]
              IN
              IF r.panic
              THEN [str |-> r.str, heap |-> r.heap, grew |-> r.grew,
                    panic |-> TRUE, ret |-> FALSE]
              ELSE IF read # file_size
              THEN [str |-> r.str, heap |-> h2, grew |-> r.grew,
                    panic |-> FALSE, ret |-> FALSE]
              ELSE [str |-> [r.str EXCEPT !.size = read], heap |-> h2, grew |-> r.grew,
                    panic |-> FALSE, ret |-> TRUE]

(***************************************************************************)
(* Views derived from a string.                                            *)
(***************************************************************************)
td_string_view_from_string(s) == View(s.data, 0, s.size)

td_string_slice(s, start, end) ==
    LET start1 == IF start > s.size THEN s.size ELSE start
        end1   == IF end > s.size THEN s.size ELSE end
        end2   == IF end1 < start1 THEN start1 ELSE end1
    IN  View(s.data, start1, SzSub(end2, start1))

td_string_view_slice(v, start, end) ==
    LET start1 == IF start > end THEN end ELSE start
        end1   == IF end > v.size THEN v.size ELSE end
    IN  View(v.data.base, SzAdd(v.data.off, start1), SzSub(end1, start1))

(***************************************************************************)
(* The state machine of one TD_String, its heap and one derived view.      *)
(***************************************************************************)
\* run counts the single appends made since the empty vector with nothing else
\* in between, and is -1 once any other operation has run
NoOp == [op |-> "init", items |-> <<>>, file |-> <<>>, io |-> "ok", ret |-> TRUE,
         grew |-> FALSE, run |-> 0]

Other == [NoOp EXCEPT !.run = -1]

\* last is the record of the latest operation on the string; a specification
\* whose claims do not need it starts with the record switched off
NoRecord == [op |-> "off"]

Record(l) == IF last = NoRecord THEN last ELSE l

\* ghost is the history of the derived view: whether, since it was derived,
\* td_string_clear ran (cleared), td__vec_alloc took its growth branch (grown),
\* an append or bulk append ran (appended), and whether only truncations and
\* appends needing no more than cap, the capacity at derivation, ran (within)
NoGhost == [derived |-> FALSE, cleared |-> FALSE, grown |-> FALSE, appended |-> FALSE,
            cap |-> 0, within |-> TRUE]

NoSlice == [phase |-> "off"]

NoChop == [phase |-> "off"]

\* the address the allocator hands out next: a block that is not live and
\* that the derived view does not point to
Fresh == CHOOSE p \in Addr :
            /\ p \notin DOMAIN heap
            /\ p # view.data.base
            /\ \A q \in Addr : (q \notin DOMAIN heap /\ q # view.data.base) => p <= q

\* history of the derived view: what happened to the string since derivation
GhostAfter(op, r, needed) ==
    IF ~ghost.derived THEN ghost
    ELSE [ghost EXCEPT !.cleared = @ \/ op = "clear",
                       !.grown   = @ \/ r.grew,
                       !.appended = @ \/ op \in {"append", "append_bulk"},
                       !.within  = @ /\ op \in {"append", "append_bulk", "truncate"}
                                     /\ needed <= ghost.cap]

Commit(r) ==
    /\ str' = r.str
    /\ heap' = r.heap
    /\ aborted' = r.panic

VecAppend(item, ok) ==
    /\ ~aborted
    /\ LET r == td_vec_append(str, heap, item, ok, Fresh)
       IN  /\ ok \/ r.grew
           /\ Commit(r)
           /\ last' = Record([NoOp EXCEPT !.op = "append", !.items = <<item>>, !.grew = r.grew,
                                           !.run = IF last.run < 0 THEN -1
                                                   ELSE IF r.panic THEN last.run
                                                   ELSE last.run + 1])
           /\ ghost' = GhostAfter("append", r, SzAdd(str.size, 1))
    /\ UNCHANGED <<view, sl, ch>>

VecAppendBulk(items, ok) ==
    /\ ~aborted
    /\ LET r == td_vec_append_bulk(str, heap, items, Len(items), ok, Fresh)
       IN  /\ ok \/ r.grew
           /\ Commit(r)
           /\ last' = Record([Other EXCEPT !.op = "append_bulk", !.items = items, !.grew = r.grew])
           /\ ghost' = GhostAfter("append_bulk", r, SzAdd(str.size, Len(items)))
    /\ UNCHANGED <<view, sl, ch>>

\* the caller shrinks the vector by assigning a smaller size
Truncate(n) ==
    /\ ~aborted
    /\ n < str.size
    /\ str' = [str EXCEPT !.size = n]
    /\ last' = Record([Other EXCEPT !.op = "truncate"])
    /\ ghost' = GhostAfter("truncate", [grew |-> FALSE], 0)
    /\ UNCHANGED <<heap, aborted, view, sl, ch>>

StringClear ==
    /\ ~aborted
    /\ LET r == td_string_clear(str, heap)
       IN  /\ Commit(r)
           /\ last' = Record([Other EXCEPT !.op = "clear"])
           /\ ghost' = GhostAfter("clear", r, 0)
    /\ UNCHANGED <<view, sl, ch>>

ReadFile(file, io, nread, ok) ==
    /\ ~aborted
    /\ io = "short" => nread < ToI32(Len(file))
    /\ io # "short" => nread = 0
    /\ io \in {"seek_fail", "tell_fail"} => file = <<>>
    /\ LET r == td_read_file_to_string(str, heap, file, io, nread, ok, Fresh)
       IN  /\ ok \/ r.grew
           /\ Commit(r)
           /\ last' = Record([Other EXCEPT !.op = "read_file", !.file = file, !.io = io,
                                   !.ret = r.ret, !.grew = r.grew])
           /\ ghost' = GhostAfter("read_file", r, 0)
    /\ UNCHANGED <<view, sl, ch>>

DeriveView ==
    /\ ~aborted
    /\ view' = td_string_view_from_string(str)
    /\ ghost' = [NoGhost EXCEPT !.derived = TRUE, !.cap = str.alloc]
    /\ UNCHANGED <<str, heap, aborted, last, sl, ch>>

DeriveSlice(start, end) ==
    /\ ~aborted
    /\ view' = td_string_slice(str, start, end)
    /\ ghost' = [NoGhost EXCEPT !.derived = TRUE, !.cap = str.alloc]
    /\ UNCHANGED <<str, heap, aborted, last, sl, ch>>

(***************************************************************************)
(* Inputs.                                                                 *)
(***************************************************************************)
Items == {"a", "b"}

SeqsUpTo(S, n) == UNION {[1..k -> S] : k \in 0..n}

Pattern(p, i) == IF p = 1 THEN (IF i % 2 = 1 THEN "a" ELSE "b")
                 ELSE (IF i % 3 = 0 THEN "a" ELSE "b")

Files == {[i \in 1..k |-> Pattern(p, i)] : k \in 0..MaxFileLen, p \in 1..2}

IoOutcomes == {"ok", "seek_fail", "tell_fail", "short"}

InitBuffer ==
    /\ str = EmptyString
    /\ heap = <<>>
    /\ aborted = FALSE
    /\ view = NullView
    /\ ghost = NoGhost
    /\ sl = NoSlice
    /\ ch = NoChop

Init == InitBuffer /\ last = NoOp

InitView == InitBuffer /\ last = NoRecord

\* a string under every operation that owns or changes its storage
Next ==
    \/ \E item \in {"a"}, ok \in BOOLEAN : VecAppend(item, ok)
    \/ \E items \in SeqsUpTo({"a"}, MaxBulk), ok \in BOOLEAN : VecAppendBulk(items, ok)
    \/ \E n \in 0..HeapMax : Truncate(n)
    \/ StringClear
    \/ \E file \in Files, io \in IoOutcomes, ok \in BOOLEAN :
          \E nread \in (IF io = "short" THEN 0..(I32_MOD \div 2) ELSE {0}) :
             ReadFile(file, io, nread, ok)

Spec == Init /\ [][Next]_vars

\* single appends from the empty vector
NextAppend == \E item \in Byte, ok \in BOOLEAN : VecAppend(item, ok)

SpecAppend == Init /\ [][NextAppend]_vars

\* the vector operations alone
NextVec ==
    \/ \E item \in Items, ok \in BOOLEAN : VecAppend(item, ok)
    \/ \E items \in SeqsUpTo(Items, MaxBulk), ok \in BOOLEAN : VecAppendBulk(items, ok)
    \/ \E n \in 0..HeapMax : Truncate(n)
    \/ StringClear

SpecVec == Init /\ [][NextVec]_vars

\* a string and a view derived from it
NextView ==
    \/ \E item \in {"a"}, ok \in BOOLEAN : VecAppend(item, ok)
    \/ \E items \in SeqsUpTo({"a"}, MaxBulk), ok \in BOOLEAN : VecAppendBulk(items, ok)
    \/ \E n \in 0..HeapMax : Truncate(n)
    \/ StringClear
    \/ \E file \in {[i \in 1..k |-> "a"] : k \in 0..(I32_MOD \div 2 - 1)},
          io \in {"ok", "short"}, ok \in BOOLEAN :
          \E nread \in (IF io = "short" THEN 0..(I32_MOD \div 2) ELSE {0}) :
             ReadFile(file, io, nread, ok)
    \/ DeriveView
    \/ \E start \in 0..(HeapMax + 1), end \in 0..(HeapMax + 1) : DeriveSlice(start, end)

SpecView == InitView /\ [][NextView]_vars

TypeOK ==
    /\ str.data \in Addr \cup {NULL}
    /\ str.size \in 0..(SIZE_MOD - 1)
    /\ str.alloc \in 0..(SIZE_MOD - 1)
    /\ aborted \in BOOLEAN
    /\ DOMAIN heap \subseteq Addr

(***************************************************************************)
(* td_string_view_slice and td_string_slice as pure functions of their     *)
(* arguments: sl holds the arguments and, once called, the result.         *)
(***************************************************************************)
\* the capacity a string has after growing from empty to n > 0 bytes
CapFor(n) == Double(TD_VECINITSZ, n)

SliceInputs ==
    {[phase |-> "in", s |-> s, v |-> View(s.data, o, m), start |-> start, end |-> end] :
        s \in {EmptyString} \cup
               {[data |-> 1, size |-> n, alloc |-> CapFor(IF n = 0 THEN 1 ELSE n)] :
                   n \in 0..MaxLen},
        o \in 0..MaxLen, m \in 0..MaxLen,
        start \in 0..MaxIdx, end \in 0..MaxIdx}

IdleBuffer ==
    /\ str = EmptyString
    /\ heap = <<>>
    /\ aborted = FALSE
    /\ last = NoRecord
    /\ view = NullView
    /\ ghost = NoGhost

InitSlice ==
    /\ IdleBuffer
    /\ ch = NoChop
    /\ sl \in {x \in SliceInputs : x.v.data.off + x.v.size <= x.s.size}

\* td_string_view_slice(v, start, end)
ViewSlice ==
    /\ sl.phase = "in"
    /\ sl' = [phase |-> "view_slice", s |-> sl.s, v |-> sl.v,
              start |-> sl.start, end |-> sl.end,
              out |-> td_string_view_slice(sl.v, sl.start, sl.end)]
    /\ UNCHANGED <<str, heap, aborted, last, view, ghost, ch>>

\* td_string_slice(s, start, end), and td_string_view_slice on the view of
\* the whole string
StringSlice ==
    /\ sl.phase = "in"
    /\ sl.v = td_string_view_from_string(sl.s)
    /\ sl' = [phase |-> "string_slice", s |-> sl.s, v |-> sl.v,
              start |-> sl.start, end |-> sl.end,
              out |-> td_string_slice(sl.s, sl.start, sl.end),
              vout |-> td_string_view_slice(td_string_view_from_string(sl.s),
                                            sl.start, sl.end)]
    /\ UNCHANGED <<str, heap, aborted, last, view, ghost, ch>>

NextSlice == ViewSlice \/ StringSlice

SpecSlice == InitSlice /\ [][NextSlice]_vars

Clamp(x, lo, hi) == IF x < lo THEN lo ELSE IF x > hi THEN hi ELSE x

\* C1: td_string_view_slice(v, start, end) lies inside v and its size is
\* clamp(end,0,v.size) - clamp(start,0,clamp(end,0,v.size)), never wrapped.
C1_SliceClampLaw ==
    sl.phase = "view_slice" =>
        LET e == Clamp(sl.end, 0, sl.v.size)
            b == Clamp(sl.start, 0, e)
        IN  /\ sl.out.size = e - b
            /\ sl.out.data.base = sl.v.data.base
            /\ sl.out.data.off >= sl.v.data.off
            /\ (sl.out.data.off - sl.v.data.off) + sl.out.size <= sl.v.size

\* C9: td_string_slice(s, start, end) is the same view, offset and size, as
\* td_string_view_slice(td_string_view_from_string(s), start, end).
C9_StringSliceIsViewSlice ==
    sl.phase = "string_slice" => sl.out = sl.vout

(***************************************************************************)
(* td_string_view_chop called again and again on one view.  ch.mem is the  *)
(* storage the view points into, ch.v0 the view before the first call,     *)
(* ch.tokens the bytes of the views returned so far.                       *)
(***************************************************************************)
MaxChops == MaxLen + 2

\* the bytes a view covers
Bytes(mem, v) == [k \in 1..v.size |-> mem[v.data.off + k]]

RECURSIVE Scan(_, _, _, _)
\* while (i < v->size && v->data[i] != delim) i++;
Scan(mem, v, delim, i) ==
    IF i < v.size /\ mem[v.data.off + i + 1] # delim
    THEN Scan(mem, v, delim, i + 1)
    ELSE i

\* td_string_view_chop that leaves the view on the delimiter it found
td_string_view_chop_stay(mem, v, delim) ==
    LET i == Scan(mem, v, delim, 0)
    IN  [out |-> View(v.data.base, v.data.off, i),
         v   |-> IF i < v.size
                 THEN View(v.data.base, SzAdd(v.data.off, i), SzSub(v.size, i))
                 ELSE View(v.data.base, SzAdd(v.data.off, i), 0)]

td_string_view_chop(mem, v, delim) ==
    LET i == Scan(mem, v, delim, 0)
    IN  [out |-> View(v.data.base, v.data.off, i),
         v   |-> IF i < v.size
                 THEN View(v.data.base, SzAdd(v.data.off, i + 1), SzSub(v.size, i + 1))
                 ELSE View(v.data.base, SzAdd(v.data.off, i), 0)]

InitChop ==
    /\ IdleBuffer
    /\ sl = NoSlice
    /\ \E mem \in SeqsUpTo(Byte, MaxLen), delim \in Byte, o \in 0..1 :
          \E n \in 0..MaxLen :
             /\ o + n <= Len(mem)
             /\ ch = [phase |-> "on", mem |-> mem, delim |-> delim,
                      v0 |-> View(1, o, n), v |-> View(1, o, n),
                      out |-> NullView, tokens |-> <<>>]

Chop ==
    /\ ch.phase = "on"
    /\ Len(ch.tokens) < MaxChops
    /\ LET r == td_string_view_chop(ch.mem, ch.v, ch.delim)
       IN  ch' = [ch EXCEPT !.v = r.v, !.out = r.out,
                            !.tokens = Append(@, Bytes(ch.mem, r.out))]
    /\ UNCHANGED <<str, heap, aborted, last, view, ghost, sl>>

NextChop == Chop

SpecChop == InitChop /\ [][NextChop]_vars

\* td_string_view_chop is a plain function: a caller that keeps chopping
\* gets every call done
FairSpecChop == SpecChop /\ WF_vars(Chop)

Sub(s, a, b) == [i \in 1..(b - a + 1) |-> s[a + i - 1]]

\* the index of the first d in s, or 0
FirstIdx(s, d) ==
    IF \E i \in 1..Len(s) : s[i] = d
    THEN CHOOSE i \in 1..Len(s) : s[i] = d /\ \A j \in 1..(i - 1) : s[j] # d
    ELSE 0

RECURSIVE Split(_, _)
\* the delimiter-free fields of s, left to right
Split(s, d) ==
    LET i == FirstIdx(s, d)
    IN  IF i = 0 THEN <<s>>
        ELSE <<Sub(s, 1, i - 1)>> \o Split(Sub(s, i + 1, Len(s)), d)

RECURSIVE DropFields(_, _, _)
\* s without its first n fields and the delimiters that end them
DropFields(s, d, n) ==
    LET i == FirstIdx(s, d)
    IN  IF n = 0 THEN s
        ELSE IF i = 0 THEN <<>>
        ELSE DropFields(Sub(s, i + 1, Len(s)), d, n - 1)

ChopFields ==
    ch.phase = "on" =>
        LET orig   == Bytes(ch.mem, ch.v0)
            fields == Split(orig, ch.delim)
        IN  /\ \A i \in 1..Len(ch.tokens) :
                  ch.tokens[i] = IF i <= Len(fields) THEN fields[i] ELSE <<>>
            /\ Bytes(ch.mem, ch.v) = DropFields(orig, ch.delim, Len(ch.tokens))
            /\ ch.v.data.off + ch.v.size = ch.v0.data.off + ch.v0.size

\* C5: repeated chops return the delimiter-free fields of the original bytes
\* in order; a chop on a non-empty view shrinks it, so the view empties; a
\* chop on an empty view returns an empty token and leaves the view empty.
C5_ChopDrains ==
    /\ []ChopFields
    /\ [][ch.v.size > 0 => ch'.v.size < ch.v.size]_vars
    /\ [][ch.v.size = 0 => (ch'.v.size = 0 /\ ch'.out.size = 0)]_vars
    /\ <>(ch.phase = "on" /\ ch.v.size = 0)

C5_Witness ==
    /\ ch.phase = "on"
    /\ ch.delim = ","
    /\ Bytes(ch.mem, ch.v0) = <<"a", ",", "b">>
    /\ ch.tokens = << <<"a">>, <<"b">>, <<>>, <<>> >>
    /\ ch.v.size = 0

(***************************************************************************)
(* Properties of the vector and of file ingest.                            *)
(***************************************************************************)
\* the live elements data[0..size)
Live(s, h) == IF s.data = NULL THEN <<>> ELSE [i \in 1..s.size |-> h[s.data][i]]

FreshIn(h) == CHOOSE p \in Addr : p \notin DOMAIN h

RECURSIVE AppendAll(_, _, _)
\* td_vec_append called once per item, in order, every allocation succeeding
AppendAll(s, h, items) ==
    IF items = <<>> THEN [str |-> s, heap |-> h, grew |-> FALSE, panic |-> FALSE]
    ELSE LET r == td_vec_append(s, h, Head(items), TRUE, FreshIn(h))
         IN  IF r.panic THEN r ELSE AppendAll(r.str, r.heap, Tail(items))

\* C2: after N single appends from the empty vector the capacity is 0 when
\* N = 0 and otherwise TD_VECINITSZ * 2^k for some k >= 0, and it is >= N.
C2_AppendCapacity ==
    (~aborted /\ last.run >= 0) =>
        /\ last.run = 0 => str.alloc = 0
        /\ last.run > 0 =>
              /\ \E k \in 0..SizeBits : str.alloc = TD_VECINITSZ * 2 ^ k
              /\ str.alloc >= last.run

C2_Witness ==
    /\ ~aborted
    /\ last.op = "append"
    /\ last.run = 3
    /\ last.grew
    /\ str.alloc = 4 * TD_VECINITSZ

\* C3: one td_vec_append_bulk of K items leaves the same size and the same
\* data[0..size) as K td_vec_append calls of the same items in the same order.
C3_BulkEqualsAppends ==
    [][(last'.op = "append_bulk" /\ ~aborted') =>
          LET q == AppendAll(str, heap, last'.items)
          IN  /\ ~q.panic
              /\ str'.size = q.str.size
              /\ Live(str', heap') = Live(q.str, q.heap)]_vars

C3_Witness ==
    /\ ~aborted
    /\ last.op = "append_bulk"
    /\ last.grew
    /\ Len(last.items) = 3
    /\ last.items[1] # last.items[2]
    /\ str.size = 4

\* C4: between operations, size <= alloc, and data is non-null whenever
\* alloc > 0.
C4_SizeWithinCapacity ==
    ~aborted =>
        /\ str.size <= str.alloc
        /\ str.alloc > 0 => str.data # NULL

C4_Witness ==
    /\ ~aborted
    /\ last.op = "read_file"
    /\ last.io = "short"
    /\ ~last.ret
    /\ last.grew
    /\ str.size > 0
    /\ str.size < str.alloc

\* C6: td_read_file_to_string on a readable, seekable file of K bytes returns
\* true and leaves size == K and data[0..K) equal to the file's bytes.
C6_IngestRoundTrip ==
    (last.op = "read_file" /\ last.io = "ok" /\ ~aborted) =>
        /\ last.ret
        /\ str.size = Len(last.file)
        /\ Live(str, heap) = last.file

\* the length td_read_file_to_string probes: ftell's answer held in an i32
Probed(file) == ToI32(Len(file))

\* C7 as stated: when file ingest has to grow the target, the capacity after
\* the call is exactly the probed length L.
C7_IngestExactFit ==
    (last.op = "read_file" /\ last.io # "tell_fail" /\ last.grew /\ ~aborted) =>
        str.alloc = Probed(last.file)

\* C7 amended: when file ingest has to grow the target (L > alloc), one
\* reallocation yields a new block whose capacity is the first value >= L in
\* the doubling sequence that starts at the old capacity, or at TD_VECINITSZ
\* when the old capacity is 0.
C7_IngestGrowsByDoubling ==
    [][(/\ last'.op = "read_file"
        /\ last'.io \in {"ok", "short"}
        /\ Probed(last'.file) > str.alloc
        /\ ~aborted') =>
          LET L    == Probed(last'.file)
              base == IF str.alloc = 0 THEN TD_VECINITSZ ELSE str.alloc
          IN  /\ last'.grew
              /\ \E k \in 0..SizeBits :
                    /\ str'.alloc = base * 2 ^ k
                    /\ str'.alloc >= L
                    /\ k > 0 => base * 2 ^ (k - 1) < L
              /\ str'.data \notin DOMAIN heap
              /\ DOMAIN heap' = {str'.data}]_vars

C7_Witness ==
    /\ ~aborted
    /\ last.op = "read_file"
    /\ last.io = "ok"
    /\ last.ret
    /\ last.grew
    /\ Probed(last.file) = 3
    /\ str.alloc = 4

\* C8: when the reallocation in td__vec_alloc fails the process aborts and
\* data, size and alloc are as they were before the growth attempt.
C8_AbortLeavesBufferUnmodified ==
    [][(aborted' /\ ~aborted) => str' = str]_vars

(***************************************************************************)
(* Properties of a view derived from a string.                             *)
(***************************************************************************)
\* the view points into storage that the string does not own (any more)
Dangling(v) == v.data.base # NULL /\ v.data.base # str.data

\* the view lies in the block the string owns
RefersToString(v) ==
    /\ v.data.base = str.data
    /\ v.data.off + v.size <= str.alloc

\* C10 as stated: a derived view keeps referring to the string's allocation
\* across truncations and appends that fit the capacity at derivation, and it
\* is dangling exactly when td_string_clear ran or a growth step reallocated
\* since derivation.
C10_ViewLifetime ==
    (ghost.derived /\ ~aborted) =>
        /\ ghost.within => RefersToString(view)
        /\ Dangling(view) <=> (ghost.cleared \/ ghost.grown)

\* C10 amended: the same, the second half for a view derived while the string
\* has storage; a view derived from a string without storage is the null
\* view, which no later operation makes dangling.
C10_ViewLifetimeOfStorage ==
    ghost.derived =>
        /\ ghost.within => RefersToString(view)
        /\ view.data.base # NULL =>
              /\ Dangling(view) <=> (ghost.cleared \/ ghost.grown)
              /\ (Dangling(view) /\ ~aborted) => view.data.base \notin DOMAIN heap
        /\ view.data.base = NULL => (view.size = 0 /\ ~Dangling(view))

C10_Witness ==
    /\ ~aborted
    /\ ghost.derived
    /\ view.size > 0
    /\ ghost.appended
    /\ ghost.grown
    /\ ~ghost.cleared
    /\ Dangling(view)
    /\ str.size > 0

\* a view that outlives appends which fit the capacity at derivation
C10_WithinReached ==
    /\ ghost.derived
    /\ ghost.within
    /\ ghost.appended
    /\ view.size > 0
    /\ str.size > view.data.off + view.size
    /\ RefersToString(view)

====
